---------------------------- MODULE Spec2Model ----------------------------
(***************************************************************************)
(* gcp-sa-key-checker: the signal-based classification of service-account *)
(* key certificates (keytype.go, the SAKey methods) and the concurrent     *)
(* fetch of the keys of a list of service accounts (parllelMap,            *)
(* KeyCollection, main).                                                   *)
(***************************************************************************)
EXTENDS Integers, Sequences, FiniteSets, TLC

VARIABLES
    serviceAccountIDs,  \* KeyCollection.serviceAccountIDs: the principals, in input order
    groundTruth,        \* the -ground-truth flag
    observedKeys,       \* KeyCollection.observedKeys
    groundTruthKeys,    \* KeyCollection.groundTruthKeys
    badSAs,             \* KeyCollection.badSAs
    badSAsLock,         \* KeyCollection.badSAsLock: 0 when free, else the goroutine holding it
    mainPC,             \* position of the main goroutine
    fetchErr,           \* the error FetchKeys returned ("" is nil)
    res,                \* parllelMap: res
    errs,               \* parllelMap: errs
    wg,                 \* parllelMap: the WaitGroup counter
    spawned,            \* parllelMap: goroutines started so far by the range loop
    taskPC,             \* parllelMap: position of each goroutine
    taskR,              \* parllelMap: r, err of each goroutine, and what f did
    inflight,           \* FetchObservedKeys: slots of the semaphore that are held
    limiterTokens,      \* FetchGroundTruthKeys: tokens in the limiter's bucket
    reportI,            \* main: i of the reporting loop
    pendingKeys,        \* main: key IDs of observedKeys[i] not yet visited
    key,                \* main: the SAKey being classified
    realKeyKind,        \* main: realKeyKind of the current key
    hasBadKeys,         \* main: hasBadKeys
    good,               \* main: good
    bad,                \* main: bad
    crash,              \* the message of the panic that ended the process ("" while it runs)
    exitCode            \* os.Exit status (-1 while the process runs)

fetchVars == <<serviceAccountIDs, groundTruth, observedKeys, groundTruthKeys, badSAs,
               badSAsLock, fetchErr, res, errs, wg, spawned, taskPC, taskR, inflight,
               limiterTokens>>
reportVars == <<reportI, pendingKeys, key, realKeyKind, hasBadKeys, good, bad>>
vars == <<fetchVars, reportVars, mainPC, crash, exitCode>>

-----------------------------------------------------------------------------
(* Bounds of the model. *)

\* Number of service accounts on the command line.
NumSAs == 3

\* Longest signal list handed to the resolution loop on its own.
MaxSignals == 4

\* Slots of the inflight semaphore.  The program's MaxInflightX509 is 64; the
\* model keeps it below NumSAs so that goroutines do wait for a slot.
MaxInflightX509 == 2

\* The goroutines that call the tracker of bad accounts on its own, and the
\* calls they make in all.
MaxCallers == 2
MaxTrackerCalls == 4

-----------------------------------------------------------------------------
(* Strings. Go strings are byte strings; the model uses ASCII only. *)

Char(s, i) == SubSeq(s, i, i)

Digits == {"0", "1", "2", "3", "4", "5", "6", "7", "8", "9"}

\* Every occurrence of old is replaced.
StringsReplaceAll(s, old, new) ==
    LET RECURSIVE from(_)
        from(i) == IF i > Len(s) THEN ""
                   ELSE (IF Char(s, i) = old THEN new ELSE Char(s, i)) \o from(i + 1)
    IN from(1)

\* strings.Replace(s, old, new, 1) for a one-byte old: only the first occurrence.
StringsReplaceFirst(s, old, new) ==
    IF \E i \in 1..Len(s) : Char(s, i) = old
    THEN LET i == CHOOSE j \in 1..Len(s) :
                      /\ Char(s, j) = old
                      /\ \A h \in 1..(j - 1) : Char(s, h) # old
         IN SubSeq(s, 1, i - 1) \o new \o SubSeq(s, i + 1, Len(s))
    ELSE s

\* slices.Index: 0-based position of the first occurrence, -1 when absent.
SlicesIndex(seq, v) ==
    IF \E i \in 1..Len(seq) : seq[i] = v
    THEN (CHOOSE i \in 1..Len(seq) : seq[i] = v /\ \A h \in 1..(i - 1) : seq[h] # v) - 1
    ELSE -1

SlicesContains(seq, v) == \E i \in 1..Len(seq) : seq[i] = v

-----------------------------------------------------------------------------
(* keytype.go *)

GOOGLE_PROVIDED_SYSTEM_MANAGED == "GOOGLE_PROVIDED/SYSTEM_MANAGED"
GOOGLE_PROVIDED_USER_MANAGED == "GOOGLE_PROVIDED/USER_MANAGED"
USER_PROVIDED_USER_MANAGED == "USER_PROVIDED/USER_MANAGED"

keyKindPrecedence ==
    <<USER_PROVIDED_USER_MANAGED, GOOGLE_PROVIDED_USER_MANAGED, GOOGLE_PROVIDED_SYSTEM_MANAGED>>

\* The result of a call that may panic: the value, or the panic's message.
Returned(v) == [panic |-> "", val |-> v]
Panicked(msg) == [panic |-> msg, val |-> ""]

\* The mapping without its guard.
MuxNoGuard(keyType, keyOrigin) == Returned(keyOrigin \o "/" \o keyType)

keyTypeAndOriginToMuxedKeyKind(keyType, keyOrigin) ==
    LET r == keyOrigin \o "/" \o keyType
    IN IF SlicesIndex(keyKindPrecedence, r) = -1
       THEN Panicked("Invalid key type and origin combination: " \o r)
       ELSE Returned(r)

(* Times are whole seconds (X.509 times carry no fraction): a day number
   counted from 1970-01-01 and the second of that day.  A 64-bit count of
   nanoseconds does not fit TLC's integers, so a time.Duration is kept as
   days, seconds of the day and nanoseconds of the second, compared
   lexicographically. *)
SecondsPerDay == 24 * 3600

\* time.Date(y, m, d, hh, mm, ss, 0, time.UTC), by the civil-calendar day count.
Date(y, m, d, hh, mm, ss) ==
    LET y2 == IF m <= 2 THEN y - 1 ELSE y
        era == y2 \div 400
        yoe == y2 - era * 400
        mp == (m + 9) % 12
        doy == (153 * mp + 2) \div 5 + d - 1
        doe == yoe * 365 + yoe \div 4 - yoe \div 100 + doy
    IN [days |-> era * 146097 + doe - 719468, secs |-> hh * 3600 + mm * 60 + ss]

Duration(hours, minutes) ==
    LET m == hours * 60 + minutes
    IN [days |-> m \div (24 * 60), secs |-> (m % (24 * 60)) * 60, nsec |-> 0]

\* math.MaxInt64 and math.MinInt64 nanoseconds.
maxDuration == [days |-> 106751, secs |-> 85636, nsec |-> 854775807]
minDuration == [days |-> -106752, secs |-> 763, nsec |-> 145224192]

DurationLess(a, b) ==
    \/ a.days < b.days
    \/ a.days = b.days /\ a.secs < b.secs
    \/ a.days = b.days /\ a.secs = b.secs /\ a.nsec < b.nsec

\* t.Sub(u): the difference, saturated to the range of int64 nanoseconds.
TimeSub(t, u) ==
    LET s == t.secs - u.secs
        d == [days |-> (t.days - u.days) + (IF s < 0 THEN -1 ELSE 0),
              secs |-> IF s < 0 THEN s + SecondsPerDay ELSE s,
              nsec |-> 0]
    IN IF DurationLess(maxDuration, d) THEN maxDuration
       ELSE IF DurationLess(d, minDuration) THEN minDuration
       ELSE d

googleProvidedSystemManagedValidityV1 == Duration(396, 15)
googleProvidedSystemManagedValidityV2Min == Duration(24 * 365 * 2, 0)
googleProvidedSystemManagedValidityV2Max == Duration(24 * (365 * 2 + 31), 0)
defaultMaxAfter == Date(9999, 12, 31, 23, 59, 59)
legacyGoogleProvidedUserManagedValidity == Duration(87600, 0)
serviceAccountKeyExpiryHours ==
    <<Duration(1, 0), Duration(8, 0), Duration(24, 0), Duration(168, 0),
      Duration(336, 0), Duration(720, 0), Duration(1440, 0), Duration(2160, 0)>>

\* The pattern with one digit too few: ^1[0-9]{19}$.
GaiaOneDigitShort(v) ==
    /\ Len(v) = 20
    /\ Char(v, 1) = "1"
    /\ \A i \in 2..20 : Char(v, i) \in Digits

\* GAIA_ID.MatchString(v) for ^1[0-9]{20}$ ($ without the m flag is the end of the text).
GAIA_ID_MatchString(v) ==
    /\ Len(v) = 21
    /\ Char(v, 1) = "1"
    /\ \A i \in 2..21 : Char(v, i) \in Digits

-----------------------------------------------------------------------------
(* The SAKey methods.  A Signal's explanation is kept as the fixed text of
   its format string. *)

Signal(kind, text) == [keyKind |-> kind, explanation |-> text]

NewSAKey(sa, cert) == [serviceAccount |-> sa, cert |-> cert, signals |-> <<>>, keyKind |-> ""]

AddSignal(k, kind, text) == [k EXCEPT !.signals = Append(@, Signal(kind, text))]

ExplNotAfter == "Certificate has a NotAfter date of"
ExplLegacy == "Certificate has a legacy 10y validity period of"
ExplStandard == "Certificate has standard validity period of"
ExplExpiryHours == "Certificate has a validity period in constraints/iam.serviceAccountKeyExpiryHours of"
ExplBetween == "Certificate has a validity period which is between"
ExplNonStandard == "Certificate does not have a standard GCP validity window"
ExplExtKeyUsage == "Certificate has unexpected ExtendedKeyUsage"
ExplKeyUsage == "Certificate has unexpected KeyUsage"
ExplGaia == " is a GAIA_ID"
ExplExpectedName == " matches expected name"
ExplTruncatedName == " matches expected truncated name"
ExplNoName == " does not match any expected name"
ExplNotRSA == "Public key algorithm is not RSA"
ExplNotSHA1 == "Signature algorithm is not SHA1WithRSA"
ExplLen1024 == "Public key length is 1024"
ExplLenOther == "Public key length is not 2048 or 1024"

\* The validity check with the rollout window taken as a closed interval.
ValidityClosedInterval(k) ==
    LET validityWindow == TimeSub(k.cert.NotAfter, k.cert.NotBefore)
    IN IF k.cert.NotAfter = defaultMaxAfter
       THEN AddSignal(k, GOOGLE_PROVIDED_USER_MANAGED, ExplNotAfter)
       ELSE IF validityWindow = legacyGoogleProvidedUserManagedValidity
       THEN AddSignal(k, GOOGLE_PROVIDED_USER_MANAGED, ExplLegacy)
       ELSE IF validityWindow = googleProvidedSystemManagedValidityV1
       THEN AddSignal(k, GOOGLE_PROVIDED_SYSTEM_MANAGED, ExplStandard)
       ELSE IF SlicesContains(serviceAccountKeyExpiryHours, validityWindow)
       THEN AddSignal(k, GOOGLE_PROVIDED_USER_MANAGED, ExplExpiryHours)
       ELSE IF /\ ~DurationLess(validityWindow, googleProvidedSystemManagedValidityV2Min)
               /\ ~DurationLess(googleProvidedSystemManagedValidityV2Max, validityWindow)
       THEN AddSignal(k, GOOGLE_PROVIDED_SYSTEM_MANAGED, ExplBetween)
       ELSE AddSignal(k, USER_PROVIDED_USER_MANAGED, ExplNonStandard)

\* The validity check with a system-managed signal for a key that does not expire.
ValidityNoExpirySystemManaged(k) ==
    LET validityWindow == TimeSub(k.cert.NotAfter, k.cert.NotBefore)
    IN IF k.cert.NotAfter = defaultMaxAfter
       THEN AddSignal(k, GOOGLE_PROVIDED_SYSTEM_MANAGED, ExplNotAfter)
       ELSE IF validityWindow = legacyGoogleProvidedUserManagedValidity
       THEN AddSignal(k, GOOGLE_PROVIDED_USER_MANAGED, ExplLegacy)
       ELSE IF validityWindow = googleProvidedSystemManagedValidityV1
       THEN AddSignal(k, GOOGLE_PROVIDED_SYSTEM_MANAGED, ExplStandard)
       ELSE IF SlicesContains(serviceAccountKeyExpiryHours, validityWindow)
       THEN AddSignal(k, GOOGLE_PROVIDED_USER_MANAGED, ExplExpiryHours)
       ELSE IF /\ DurationLess(googleProvidedSystemManagedValidityV2Min, validityWindow)
               /\ DurationLess(validityWindow, googleProvidedSystemManagedValidityV2Max)
       THEN AddSignal(k, GOOGLE_PROVIDED_SYSTEM_MANAGED, ExplBetween)
       ELSE AddSignal(k, USER_PROVIDED_USER_MANAGED, ExplNonStandard)

CheckValidityPeriod(k) ==
    LET validityWindow == TimeSub(k.cert.NotAfter, k.cert.NotBefore)
    IN IF k.cert.NotAfter = defaultMaxAfter
       THEN AddSignal(k, GOOGLE_PROVIDED_USER_MANAGED, ExplNotAfter)
       ELSE IF validityWindow = legacyGoogleProvidedUserManagedValidity
       THEN AddSignal(k, GOOGLE_PROVIDED_USER_MANAGED, ExplLegacy)
       ELSE IF validityWindow = googleProvidedSystemManagedValidityV1
       THEN AddSignal(k, GOOGLE_PROVIDED_SYSTEM_MANAGED, ExplStandard)
       ELSE IF SlicesContains(serviceAccountKeyExpiryHours, validityWindow)
       THEN AddSignal(k, GOOGLE_PROVIDED_USER_MANAGED, ExplExpiryHours)
       ELSE IF /\ DurationLess(googleProvidedSystemManagedValidityV2Min, validityWindow)
               /\ DurationLess(validityWindow, googleProvidedSystemManagedValidityV2Max)
       THEN AddSignal(k, GOOGLE_PROVIDED_SYSTEM_MANAGED, ExplBetween)
       ELSE AddSignal(k, USER_PROVIDED_USER_MANAGED, ExplNonStandard)

CheckExtensions(k) ==
    LET k1 == IF Len(k.cert.ExtKeyUsage) # 1 \/ k.cert.ExtKeyUsage[1] # "ClientAuth"
              THEN AddSignal(k, USER_PROVIDED_USER_MANAGED, ExplExtKeyUsage)
              ELSE k
    IN IF k.cert.KeyUsage # {"DigitalSignature"}
       THEN AddSignal(k1, USER_PROVIDED_USER_MANAGED, ExplKeyUsage)
       ELSE k1

\* The closure checkName of checkNames.
checkName(k, t, v) ==
    LET expectedName == StringsReplaceFirst(k.serviceAccount, "@", ".")
        truncatedName == IF Len(expectedName) >= 64 THEN SubSeq(expectedName, 1, 64) ELSE ""
    IN IF GAIA_ID_MatchString(v)
       THEN AddSignal(k, GOOGLE_PROVIDED_USER_MANAGED, t \o ExplGaia)
       ELSE IF v = expectedName
       THEN AddSignal(k, GOOGLE_PROVIDED_SYSTEM_MANAGED, t \o ExplExpectedName)
       ELSE IF truncatedName # "" /\ v = truncatedName
       THEN AddSignal(k, GOOGLE_PROVIDED_SYSTEM_MANAGED, t \o ExplTruncatedName)
       ELSE AddSignal(k, USER_PROVIDED_USER_MANAGED, t \o ExplNoName)

checkNames(k) ==
    checkName(checkName(k, "SubjectCN", k.cert.Subject), "IssuerCN", k.cert.Issuer)

\* The type assertion k.cert.PublicKey.(*rsa.PublicKey) panics on any other key.
PanicNotRSAKey == "interface conversion: interface {} is not *rsa.PublicKey"

\* The crypto check with a positive signal for the parameters of a Google key.
checkCryptoPositiveSignal(k) ==
    LET k1 == IF k.cert.PublicKeyAlgorithm # "RSA"
              THEN AddSignal(k, USER_PROVIDED_USER_MANAGED, ExplNotRSA)
              ELSE k
        k2 == IF k.cert.SignatureAlgorithm # "SHA1WithRSA"
              THEN AddSignal(k1, USER_PROVIDED_USER_MANAGED, ExplNotSHA1)
              ELSE k1
    IN IF k.cert.PublicKey.type # "*rsa.PublicKey"
       THEN [panic |-> PanicNotRSAKey, val |-> k2]
       ELSE IF k.cert.PublicKey.bitLen = 1024
       THEN Returned(AddSignal(k2, GOOGLE_PROVIDED_USER_MANAGED, ExplLen1024))
       ELSE IF k.cert.PublicKey.bitLen # 2048
       THEN Returned(AddSignal(k2, USER_PROVIDED_USER_MANAGED, ExplLenOther))
       ELSE Returned(AddSignal(k2, GOOGLE_PROVIDED_SYSTEM_MANAGED, ExplLenOther))

checkCrypto(k) ==
    LET k1 == IF k.cert.PublicKeyAlgorithm # "RSA"
              THEN AddSignal(k, USER_PROVIDED_USER_MANAGED, ExplNotRSA)
              ELSE k
        k2 == IF k.cert.SignatureAlgorithm # "SHA1WithRSA"
              THEN AddSignal(k1, USER_PROVIDED_USER_MANAGED, ExplNotSHA1)
              ELSE k1
    IN IF k.cert.PublicKey.type # "*rsa.PublicKey"
       THEN [panic |-> PanicNotRSAKey, val |-> k2]
       ELSE IF k.cert.PublicKey.bitLen = 1024
       THEN Returned(AddSignal(k2, GOOGLE_PROVIDED_USER_MANAGED, ExplLen1024))
       ELSE IF k.cert.PublicKey.bitLen # 2048
       THEN Returned(AddSignal(k2, USER_PROVIDED_USER_MANAGED, ExplLenOther))
       ELSE Returned(k2)

check(k) ==
    LET c == checkCrypto(checkNames(k))
    IN IF c.panic # ""
       THEN c
       ELSE Returned(CheckExtensions(CheckValidityPeriod(c.val)))

\* The loop with the precedence comparison lost: the first signal decides.
RECURSIVE FirstWinsLoop(_, _)
FirstWinsLoop(signals, r) ==
    IF signals = <<>> THEN r
    ELSE FirstWinsLoop(Tail(signals), IF r = "" THEN Head(signals).keyKind ELSE r)

\* The range loop of determineKeyKind over k.signals, from the named result r.
RECURSIVE ResolveLoop(_, _)
ResolveLoop(signals, r) ==
    IF signals = <<>> THEN r
    ELSE ResolveLoop(Tail(signals),
                     IF r = "" THEN Head(signals).keyKind
                     ELSE IF SlicesIndex(keyKindPrecedence, Head(signals).keyKind)
                             < SlicesIndex(keyKindPrecedence, r)
                          THEN Head(signals).keyKind
                          ELSE r)

PanicNoSignals == "No signals found for key"

\* determineKeyKind: the key after the call, or the panic that ended it.
determineKeyKind(k) ==
    LET c == check(k)
    IN IF c.panic # "" THEN c
       ELSE IF Len(c.val.signals) = 0 THEN [panic |-> PanicNoSignals, val |-> c.val]
       ELSE Returned([c.val EXCEPT !.keyKind = ResolveLoop(c.val.signals, "")])

-----------------------------------------------------------------------------
(* Inputs of the classification: service accounts with the names a Google
   certificate would carry for them, written out literally, and certificates
   built from the values each check distinguishes. *)

ShortSA == [sa |-> "sa1@p.iam.gserviceaccount.com",
            expected |-> "sa1.p.iam.gserviceaccount.com",
            truncated |-> ""]
LongSA == [sa |-> "svc-account-with-a-long-name-1@project-with-a-long-id-1234.iam.gserviceaccount.com",
           expected |-> "svc-account-with-a-long-name-1.project-with-a-long-id-1234.iam.gserviceaccount.com",
           truncated |-> "svc-account-with-a-long-name-1.project-with-a-long-id-1234.iam.g"]
TwoAtSA == [sa |-> "a@b@c.example", expected |-> "a.b@c.example", truncated |-> ""]
TestSAs == {ShortSA, LongSA, TwoAtSA}

GaiaSample == "112233445566778899001"

SubjectNames(s) ==
    {GaiaSample, "212233445566778899001", "1122334455667788990011", "11223344556677889900x",
     "11223344556677889900", s.expected, s.sa, ""}
    \cup (IF s.truncated = "" THEN {} ELSE {s.truncated})

IssuerNames(s) ==
    {GaiaSample, s.expected, "Example CA"} \cup (IF s.truncated = "" THEN {} ELSE {s.truncated})

\* A duration moved by a number of seconds.
DurationShift(d, delta) ==
    [days |-> d.days + (d.secs + delta) \div SecondsPerDay,
     secs |-> (d.secs + delta) % SecondsPerDay, nsec |-> 0]

TimeAdd(t, d) ==
    [days |-> t.days + d.days + (t.secs + d.secs) \div SecondsPerDay,
     secs |-> (t.secs + d.secs) % SecondsPerDay]

TimeBefore(t, d) ==
    [days |-> t.days - d.days + (t.secs - d.secs) \div SecondsPerDay,
     secs |-> (t.secs - d.secs) % SecondsPerDay]

TestWindows ==
    {serviceAccountKeyExpiryHours[i] : i \in 1..Len(serviceAccountKeyExpiryHours)}
    \cup {legacyGoogleProvidedUserManagedValidity,
          DurationShift(legacyGoogleProvidedUserManagedValidity, 1),
          googleProvidedSystemManagedValidityV1,
          DurationShift(googleProvidedSystemManagedValidityV1, 1),
          Duration(396, 0),
          googleProvidedSystemManagedValidityV2Min,
          DurationShift(googleProvidedSystemManagedValidityV2Min, 1),
          DurationShift(googleProvidedSystemManagedValidityV2Max, -1),
          googleProvidedSystemManagedValidityV2Max,
          DurationShift(googleProvidedSystemManagedValidityV2Max, 1),
          Duration(0, 0), Duration(0, 59), Duration(-1, 0)}

TestNotBefore == Date(2024, 1, 1, 0, 0, 0)

TestValidities ==
    {[NotBefore |-> TestNotBefore, NotAfter |-> TimeAdd(TestNotBefore, w)] : w \in TestWindows}
    \cup {[NotBefore |-> TimeBefore(defaultMaxAfter, w), NotAfter |-> defaultMaxAfter] :
            w \in {googleProvidedSystemManagedValidityV1,
                   DurationShift(googleProvidedSystemManagedValidityV2Min, 1),
                   Duration(5, 0)}}
    \cup {[NotBefore |-> TestNotBefore, NotAfter |-> defaultMaxAfter],
          [NotBefore |-> TestNotBefore, NotAfter |-> TimeAdd(defaultMaxAfter, Duration(0, -1))],
          [NotBefore |-> Date(1, 1, 1, 0, 0, 0), NotAfter |-> Date(2400, 1, 1, 0, 0, 0)],
          [NotBefore |-> Date(2400, 1, 1, 0, 0, 0), NotAfter |-> Date(1, 1, 1, 0, 0, 0)]}

\* x509.ParseCertificate pairs the algorithm with the key's type.
TestPublicKeys ==
    {[alg |-> "RSA", key |-> [type |-> "*rsa.PublicKey", bitLen |-> 2048]],
     [alg |-> "RSA", key |-> [type |-> "*rsa.PublicKey", bitLen |-> 1024]],
     [alg |-> "RSA", key |-> [type |-> "*rsa.PublicKey", bitLen |-> 4096]],
     [alg |-> "ECDSA", key |-> [type |-> "*ecdsa.PublicKey", bitLen |-> 256]]}

TestSignatureAlgorithms == {"SHA1WithRSA", "SHA256WithRSA"}
TestExtKeyUsages == {<<"ClientAuth">>, <<>>, <<"ClientAuth", "ServerAuth">>}
TestKeyUsages == {{"DigitalSignature"}, {"DigitalSignature", "KeyEncipherment"}}

Certificate(v, subject, issuer, pk, sig, eku, ku) ==
    [NotBefore |-> v.NotBefore, NotAfter |-> v.NotAfter, Subject |-> subject,
     Issuer |-> issuer, PublicKeyAlgorithm |-> pk.alg, PublicKey |-> pk.key,
     SignatureAlgorithm |-> sig, ExtKeyUsage |-> eku, KeyUsage |-> ku]

-----------------------------------------------------------------------------
(* The classification on its own: one key, built by NewSAKey from a service
   account and a certificate, and one call of determineKeyKind. *)

NoProgram ==
    /\ serviceAccountIDs = <<>>
    /\ groundTruth = FALSE
    /\ observedKeys = <<>>
    /\ groundTruthKeys = <<>>
    /\ badSAs = <<>>
    /\ badSAsLock = 0
    /\ fetchErr = ""
    /\ res = <<>>
    /\ errs = <<>>
    /\ wg = 0
    /\ spawned = 0
    /\ taskPC = <<>>
    /\ taskR = <<>>
    /\ inflight = 0
    /\ limiterTokens = 0
    /\ reportI = 0
    /\ pendingKeys = {}
    /\ realKeyKind = ""
    /\ hasBadKeys = FALSE
    /\ good = 0
    /\ bad = 0
    /\ crash = ""
    /\ exitCode = -1

ClassifyInit ==
    /\ NoProgram
    /\ mainPC = "newSAKey"
    /\ \E s \in TestSAs, v \in TestValidities, pk \in TestPublicKeys,
          sig \in TestSignatureAlgorithms, eku \in TestExtKeyUsages, ku \in TestKeyUsages :
         \E subject \in SubjectNames(s), issuer \in IssuerNames(s) :
            key = NewSAKey(s.sa, Certificate(v, subject, issuer, pk, sig, eku, ku))

\* key.determineKeyKind()
DetermineKeyKind ==
    /\ mainPC = "newSAKey"
    /\ LET d == determineKeyKind(key)
       IN /\ key' = d.val
          /\ crash' = d.panic
          /\ mainPC' = IF d.panic # "" THEN "panic" ELSE "classified"
    /\ UNCHANGED <<fetchVars, reportI, pendingKeys, realKeyKind, hasBadKeys, good, bad, exitCode>>

ClassifyNext == DetermineKeyKind

ClassifySpec == ClassifyInit /\ [][ClassifyNext]_vars

(* The resolution loop on its own: any list of at most MaxSignals signals,
   and the loop run over any rearrangement of it. *)

SignalLists ==
    UNION {[1..n -> {Signal(kind, "signal") : kind \in {keyKindPrecedence[i] : i \in 1..3}}] :
             n \in 1..MaxSignals}

Rearrangements(n) == {p \in [1..n -> 1..n] : \A i, j \in 1..n : p[i] = p[j] => i = j}

ResolveInit ==
    /\ NoProgram
    /\ mainPC = "signals"
    /\ \E l \in SignalLists : key = [NewSAKey("", "") EXCEPT !.signals = l]

ResolveRearranged ==
    /\ mainPC = "signals"
    /\ \E p \in Rearrangements(Len(key.signals)) :
         key' = [key EXCEPT !.keyKind =
                    ResolveLoop([i \in 1..Len(key.signals) |-> key.signals[p[i]]], "")]
    /\ mainPC' = "resolved"
    /\ UNCHANGED <<fetchVars, reportI, pendingKeys, realKeyKind, hasBadKeys, good, bad,
                   crash, exitCode>>

ResolveNext == ResolveRearranged

ResolveSpec == ResolveInit /\ [][ResolveNext]_vars

-----------------------------------------------------------------------------
(* The program's surroundings: the command line, what the public
   certificate endpoint serves for each service account and what the IAM
   API lists for it. *)

SAUser(n) == "sa" \o ToString(n)
SADomain == "p.iam.gserviceaccount.com"
SAName(n) == SAUser(n) \o "@" \o SADomain
SADotted(n) == SAUser(n) \o "." \o SADomain

\* The argument lists: all different, and the first account given again at the end.
DistinctSAs == [i \in 1..NumSAs |-> SAName(i)]
RepeatedSAs == [i \in 1..NumSAs |-> IF i = NumSAs THEN SAName(1) ELSE SAName(i)]
CommandLines == {DistinctSAs, RepeatedSAs}

\* The number n of the account named sa.
SANumber(sa) == CHOOSE n \in 1..NumSAs : SAName(n) = sa

\* A Go map: nil, or its entries.
NilMap == [nil |-> TRUE, entries |-> <<>>]
GoMap(f) == [nil |-> FALSE, entries |-> f]

RSA2048 == [alg |-> "RSA", key |-> [type |-> "*rsa.PublicKey", bitLen |-> 2048]]
RSA4096 == [alg |-> "RSA", key |-> [type |-> "*rsa.PublicKey", bitLen |-> 4096]]
ECDSA256 == [alg |-> "ECDSA", key |-> [type |-> "*ecdsa.PublicKey", bitLen |-> 256]]

WindowFrom(t, w) == [NotBefore |-> t, NotAfter |-> TimeAdd(t, w)]

\* The key Google rotates for the account itself.
SystemCert(n) ==
    Certificate(WindowFrom(TestNotBefore, googleProvidedSystemManagedValidityV1),
                SADotted(n), SADotted(n), RSA2048, "SHA1WithRSA", <<"ClientAuth">>,
                {"DigitalSignature"})
\* A key created by a user through the API.
UserManagedCert ==
    Certificate([NotBefore |-> TestNotBefore, NotAfter |-> defaultMaxAfter],
                GaiaSample, GaiaSample, RSA2048, "SHA1WithRSA", <<"ClientAuth">>,
                {"DigitalSignature"})
\* Keys generated elsewhere and uploaded.
UploadedCert ==
    Certificate(WindowFrom(TestNotBefore, Duration(24 * 365, 0)),
                "unused", "unused", RSA4096, "SHA256WithRSA", <<>>, {})
UploadedECCert ==
    Certificate(WindowFrom(TestNotBefore, Duration(24 * 365, 0)),
                "unused", "unused", ECDSA256, "ECDSAWithSHA256", <<>>, {})

\* A PEM text of the endpoint's JSON: what pem.Decode and x509.ParseCertificate make of it.
GoodPEM(cert) ==
    [block |-> TRUE, rest |-> 0, Type |-> "CERTIFICATE", Headers |-> 0, parses |-> TRUE, cert |-> cert]

OneKey(id, pemText) == [k \in {id} |-> pemText]
TwoKeys(id1, pem1, id2, pem2) == [k \in {id1, id2} |-> IF k = id1 THEN pem1 ELSE pem2]

OKResponse(keys) == [err |-> FALSE, StatusCode |-> 200, readErr |-> FALSE, json |-> TRUE, keys |-> keys]

\* The key sets the endpoint may serve for account n.
PublishedKeys(n) ==
    CASE n % 3 = 1 -> {OneKey("k1", GoodPEM(SystemCert(n)))}
      [] n % 3 = 2 -> {TwoKeys("k1", GoodPEM(SystemCert(n)), "k2", GoodPEM(UserManagedCert))}
      [] OTHER -> {OneKey("k1", GoodPEM(UploadedCert)), OneKey("k1", GoodPEM(UploadedECCert))}

\* The responses whose handling ends in an error, one for each return of an error.
FailingResponses(n) ==
    LET sample == GoodPEM(SystemCert(n))
    IN {[OKResponse(<<>>) EXCEPT !.err = TRUE],
        [OKResponse(<<>>) EXCEPT !.StatusCode = 404],
        [OKResponse(<<>>) EXCEPT !.StatusCode = 500],
        [OKResponse(<<>>) EXCEPT !.readErr = TRUE],
        [OKResponse(<<>>) EXCEPT !.json = FALSE],
        OKResponse(OneKey("k1", [sample EXCEPT !.block = FALSE])),
        OKResponse(TwoKeys("k1", sample, "k2", [sample EXCEPT !.rest = 1])),
        OKResponse(OneKey("k1", [sample EXCEPT !.Type = "PUBLIC KEY"])),
        OKResponse(OneKey("k1", [sample EXCEPT !.Headers = 1])),
        OKResponse(TwoKeys("k1", [sample EXCEPT !.parses = FALSE], "k2", sample))}

\* What http.Get may return for the account named sa.
Responses(sa) ==
    {OKResponse(keys) : keys \in PublishedKeys(SANumber(sa))} \cup FailingResponses(SANumber(sa))

\* The error of one PEM text in the loop of getServiceAccountKeyCerts ("" when it is added).
PEMError(pemText) ==
    IF ~pemText.block THEN "error decoding PEM block"
    ELSE IF pemText.rest > 0 THEN "error: Extra data after PEM block"
    ELSE IF pemText.Type # "CERTIFICATE" THEN "error: Unexpected PEM block type"
    ELSE IF pemText.Headers > 0 THEN "error: unexpected headers in PEM block"
    ELSE IF ~pemText.parses THEN "error parsing certificate"
    ELSE ""

\* getServiceAccountKeyCerts with the response of its http.Get.  The range
\* over the JSON object visits the keys in any order and returns at the first
\* key in error: which error is returned is then any of them.
getServiceAccountKeyCerts(resp) ==
    IF resp.err THEN [certs |-> NilMap, err |-> "error making request"]
    ELSE IF resp.StatusCode = 404
    THEN [certs |-> NilMap, err |-> "error: service account not found. Does it exist and is it enabled?"]
    ELSE IF resp.StatusCode # 200 THEN [certs |-> NilMap, err |-> "error: unexpected status code"]
    ELSE IF resp.readErr THEN [certs |-> NilMap, err |-> "error reading response body"]
    ELSE IF ~resp.json THEN [certs |-> NilMap, err |-> "error unmarshaling JSON"]
    ELSE IF \E id \in DOMAIN resp.keys : PEMError(resp.keys[id]) # ""
    THEN [certs |-> NilMap,
          err |-> PEMError(resp.keys[CHOOSE id \in DOMAIN resp.keys : PEMError(resp.keys[id]) # ""])]
    ELSE [certs |-> GoMap([id \in DOMAIN resp.keys |-> resp.keys[id].cert]), err |-> ""]

KeyName(n, id) == "projects/-/serviceAccounts/" \o SAName(n) \o "/keys/" \o id
APIKey(n, id, keyType, keyOrigin) == [Name |-> KeyName(n, id), KeyType |-> keyType, KeyOrigin |-> keyOrigin]

\* The key lists Keys.List may return for account n.
ListedKeys(n) ==
    CASE n % 3 = 1 -> {<<APIKey(n, "k1", "SYSTEM_MANAGED", "GOOGLE_PROVIDED")>>}
      [] n % 3 = 2 -> {<<APIKey(n, "k1", "SYSTEM_MANAGED", "GOOGLE_PROVIDED"),
                         APIKey(n, "k2", "USER_MANAGED", "GOOGLE_PROVIDED")>>,
                       <<APIKey(n, "k1", "SYSTEM_MANAGED", "GOOGLE_PROVIDED")>>}
      [] OTHER -> {<<APIKey(n, "k1", "USER_MANAGED", "USER_PROVIDED")>>,
                   <<APIKey(n, "k1", "USER_MANAGED", "ORIGIN_UNSPECIFIED")>>,
                   <<APIKey(n, "k1", "SYSTEM_MANAGED", "USER_PROVIDED")>>}

APIError == "googleapi: Error 403"

\* What Keys.List(...).Do() may return for the account named sa.
ListResults(sa) ==
    {[Keys |-> l, err |-> ""] : l \in ListedKeys(SANumber(sa))} \cup {[Keys |-> <<>>, err |-> APIError]}

\* Position of the first occurrence of sep in s, 0 when there is none.
StringsIndex(s, sep) ==
    LET at == {i \in 1..(Len(s) - Len(sep) + 1) : SubSeq(s, i, i + Len(sep) - 1) = sep}
    IN IF at = {} THEN 0 ELSE CHOOSE i \in at : \A j \in at : i <= j

\* strings.SplitAfter(s, sep)[1]: the piece after the first sep, up to and
\* with the next one; no such piece (the index is out of range) without a sep.
SplitAfterSecond(s, sep) ==
    LET i == StringsIndex(s, sep)
        rest == SubSeq(s, i + Len(sep), Len(s))
        j == StringsIndex(rest, sep)
    IN IF i = 0 THEN Panicked("index out of range [1] with length 1")
       ELSE IF j = 0 THEN Returned(rest)
       ELSE Returned(SubSeq(rest, 1, j + Len(sep) - 1))

\* The loop of getServiceAccountKeys over keys.Keys, from the map r.
RECURSIVE KeysByID(_, _)
KeysByID(keys, r) ==
    IF keys = <<>> THEN r
    ELSE LET id == SplitAfterSecond(Head(keys).Name, "keys/").val
         IN KeysByID(Tail(keys), [k \in (DOMAIN r) \cup {id} |-> IF k = id THEN Head(keys) ELSE r[k]])

\* getServiceAccountKeys with the result of its Keys.List call.
getServiceAccountKeys(list) ==
    IF list.err # "" THEN [keys |-> NilMap, err |-> list.err]
    ELSE [keys |-> GoMap(KeysByID(list.Keys, <<>>)), err |-> ""]

-----------------------------------------------------------------------------
(* The program: main, KeyCollection and parllelMap.  The goroutine that
   parllelMap starts for items[i - 1] is goroutine i. *)

N == Len(serviceAccountIDs)
Tasks == 1..N

ZeroTask == [r |-> NilMap, err |-> "", fetchFailed |-> FALSE, isBad |-> FALSE,
             returns |-> 0, tokens |-> 0, apiCalls |-> 0]

Init ==
    /\ serviceAccountIDs \in CommandLines
    /\ groundTruth \in BOOLEAN
    /\ observedKeys = <<>>
    /\ groundTruthKeys = <<>>
    /\ badSAs = <<>>
    /\ badSAsLock = 0
    /\ mainPC = "FetchKeys"
    /\ fetchErr = ""
    /\ res = <<>>
    /\ errs = <<>>
    /\ wg = 0
    /\ spawned = 0
    /\ taskPC = [i \in 1..NumSAs |-> "none"]
    /\ taskR = [i \in 1..NumSAs |-> ZeroTask]
    /\ inflight = 0
    /\ limiterTokens = 0
    /\ reportI = 0
    /\ pendingKeys = {}
    /\ key = NewSAKey("", "")
    /\ realKeyKind = ""
    /\ hasBadKeys = FALSE
    /\ good = 0
    /\ bad = 0
    /\ crash = ""
    /\ exitCode = -1

InObserved == mainPC \in {"observed_spawn", "observed_wait"}
InGroundTruth == mainPC \in {"groundTruth_spawn", "groundTruth_wait"}

\* parllelMap up to its range loop: res, errs, wg.Add(len(items)).
ParllelMapEntry ==
    /\ res' = [i \in Tasks |-> NilMap]
    /\ errs' = [i \in Tasks |-> ""]
    /\ wg' = N
    /\ spawned' = 0
    /\ taskPC' = [i \in Tasks |-> "idle"]
    /\ taskR' = [i \in Tasks |-> ZeroTask]

\* main calls FetchKeys, which calls FetchObservedKeys, which runs up to the loop of parllelMap.
FetchObservedKeysStart ==
    /\ mainPC = "FetchKeys"
    /\ inflight' = 0
    /\ observedKeys' = [i \in Tasks |-> NilMap]
    /\ ParllelMapEntry
    /\ mainPC' = "observed_spawn"
    /\ UNCHANGED <<serviceAccountIDs, groundTruth, groundTruthKeys, badSAs, badSAsLock,
                   fetchErr, limiterTokens, reportVars, crash, exitCode>>

\* One turn of the range loop of parllelMap: go func() { ... }() for the next item.
Spawn ==
    /\ mainPC \in {"observed_spawn", "groundTruth_spawn"}
    /\ spawned < N
    /\ spawned' = spawned + 1
    /\ taskPC' = [taskPC EXCEPT ![spawned + 1] = "start"]
    /\ mainPC' = IF spawned + 1 < N THEN mainPC
                 ELSE IF mainPC = "observed_spawn" THEN "observed_wait" ELSE "groundTruth_wait"
    /\ UNCHANGED <<serviceAccountIDs, groundTruth, observedKeys, groundTruthKeys, badSAs,
                   badSAsLock, fetchErr, res, errs, wg, taskR, inflight, limiterTokens,
                   reportVars, crash, exitCode>>

\* The semaphore grants a slot without the bound.
AcquireUnbounded(held) == TRUE

\* inflight.Acquire(context.Background(), 1) returns once a slot is free (the
\* context is never cancelled: it returns no error).
CanAcquire(held) == held < MaxInflightX509

ObsAcquire(i) ==
    /\ InObserved
    /\ taskPC[i] = "start"
    /\ CanAcquire(inflight)
    /\ inflight' = inflight + 1
    /\ taskPC' = [taskPC EXCEPT ![i] = "acquired"]
    /\ UNCHANGED <<serviceAccountIDs, groundTruth, observedKeys, groundTruthKeys, badSAs,
                   badSAsLock, fetchErr, res, errs, wg, spawned, taskR, limiterTokens,
                   reportVars, mainPC, crash, exitCode>>

\* res, err := getServiceAccountKeyCerts(sa), and the warning printed for an error.
ObsFetch(i) ==
    /\ InObserved
    /\ taskPC[i] = "acquired"
    /\ \E resp \in Responses(serviceAccountIDs[i]) :
         LET out == getServiceAccountKeyCerts(resp)
         IN IF out.err # ""
            THEN /\ taskPC' = [taskPC EXCEPT ![i] = "failed"]
                 /\ taskR' = [taskR EXCEPT ![i].fetchFailed = TRUE]
            ELSE /\ taskPC' = [taskPC EXCEPT ![i] = "returning"]
                 /\ taskR' = [taskR EXCEPT ![i].r = out.certs]
    /\ UNCHANGED <<serviceAccountIDs, groundTruth, observedKeys, groundTruthKeys, badSAs,
                   badSAsLock, fetchErr, res, errs, wg, spawned, inflight, limiterTokens,
                   reportVars, mainPC, crash, exitCode>>

\* addBadSA: k.badSAsLock.Lock()
AddBadSALock(i) ==
    /\ InObserved
    /\ taskPC[i] = "failed"
    /\ badSAsLock = 0
    /\ badSAsLock' = i
    /\ taskPC' = [taskPC EXCEPT ![i] = "addBadSA"]
    /\ UNCHANGED <<serviceAccountIDs, groundTruth, observedKeys, groundTruthKeys, badSAs,
                   fetchErr, res, errs, wg, spawned, taskR, inflight, limiterTokens,
                   reportVars, mainPC, crash, exitCode>>

\* The tracker keeps only the last account.
addBadSAOverwrite(list, sa) == <<sa>>

\* k.badSAs = append(k.badSAs, sa)
addBadSA(list, sa) == Append(list, sa)

\* addBadSA: the append and the deferred Unlock; then f's return nil, nil.
AddBadSAUnlock(i) ==
    /\ InObserved
    /\ taskPC[i] = "addBadSA"
    /\ badSAsLock = i
    /\ badSAs' = addBadSA(badSAs, serviceAccountIDs[i])
    /\ badSAsLock' = 0
    /\ taskR' = [taskR EXCEPT ![i].r = NilMap, ![i].err = ""]
    /\ taskPC' = [taskPC EXCEPT ![i] = "returning"]
    /\ UNCHANGED <<serviceAccountIDs, groundTruth, observedKeys, groundTruthKeys,
                   fetchErr, res, errs, wg, spawned, inflight, limiterTokens,
                   reportVars, mainPC, crash, exitCode>>

\* f returns: the deferred inflight.Release(1).
ObsRelease(i) ==
    /\ InObserved
    /\ taskPC[i] = "returning"
    /\ inflight' = inflight - 1
    /\ taskR' = [taskR EXCEPT ![i].returns = @ + 1]
    /\ taskPC' = [taskPC EXCEPT ![i] = "returned"]
    /\ UNCHANGED <<serviceAccountIDs, groundTruth, observedKeys, groundTruthKeys, badSAs,
                   badSAsLock, fetchErr, res, errs, wg, spawned, limiterTokens,
                   reportVars, mainPC, crash, exitCode>>

\* isBadSA: k.badSAsLock.Lock()
IsBadSALock(i) ==
    /\ InGroundTruth
    /\ taskPC[i] = "start"
    /\ badSAsLock = 0
    /\ badSAsLock' = i
    /\ taskPC' = [taskPC EXCEPT ![i] = "isBadSA"]
    /\ UNCHANGED <<serviceAccountIDs, groundTruth, observedKeys, groundTruthKeys, badSAs,
                   fetchErr, res, errs, wg, spawned, taskR, inflight, limiterTokens,
                   reportVars, mainPC, crash, exitCode>>

\* No account is ever found in the tracker.
isBadSANever(sa) == FALSE

\* slices.Contains(k.badSAs, sa)
isBadSA(sa) == SlicesContains(badSAs, sa)

\* isBadSA: the test and the deferred Unlock; then f returns nil, nil for a bad account.
IsBadSAUnlock(i) ==
    /\ InGroundTruth
    /\ taskPC[i] = "isBadSA"
    /\ badSAsLock = i
    /\ badSAsLock' = 0
    /\ IF isBadSA(serviceAccountIDs[i])
       THEN /\ taskR' = [taskR EXCEPT ![i].isBad = TRUE, ![i].r = NilMap, ![i].err = "",
                                      ![i].returns = @ + 1]
            /\ taskPC' = [taskPC EXCEPT ![i] = "returned"]
       ELSE /\ taskR' = taskR
            /\ taskPC' = [taskPC EXCEPT ![i] = "wait"]
    /\ UNCHANGED <<serviceAccountIDs, groundTruth, observedKeys, groundTruthKeys, badSAs,
                   fetchErr, res, errs, wg, spawned, inflight, limiterTokens,
                   reportVars, mainPC, crash, exitCode>>

\* limiter.Wait(context.Background()) returns with a token of the bucket (the
\* context is never cancelled and has no deadline: it returns no error).
LimiterWait(i) ==
    /\ InGroundTruth
    /\ taskPC[i] = "wait"
    /\ limiterTokens > 0
    /\ limiterTokens' = limiterTokens - 1
    /\ taskR' = [taskR EXCEPT ![i].tokens = @ + 1]
    /\ taskPC' = [taskPC EXCEPT ![i] = "call"]
    /\ UNCHANGED <<serviceAccountIDs, groundTruth, observedKeys, groundTruthKeys, badSAs,
                   badSAsLock, fetchErr, res, errs, wg, spawned, inflight,
                   reportVars, mainPC, crash, exitCode>>

\* Time passes: the limiter's bucket, of burst 1, is full again.
LimiterRefill ==
    /\ InGroundTruth
    /\ limiterTokens = 0
    /\ limiterTokens' = 1
    /\ UNCHANGED <<serviceAccountIDs, groundTruth, observedKeys, groundTruthKeys, badSAs,
                   badSAsLock, fetchErr, res, errs, wg, spawned, taskPC, taskR, inflight,
                   reportVars, mainPC, crash, exitCode>>

\* return getServiceAccountKeys(context.Background(), iam, sa)
GroundTruthCall(i) ==
    /\ InGroundTruth
    /\ taskPC[i] = "call"
    /\ \E list \in ListResults(serviceAccountIDs[i]) :
         LET out == getServiceAccountKeys(list)
         IN taskR' = [taskR EXCEPT ![i].r = out.keys, ![i].err = out.err,
                                   ![i].apiCalls = @ + 1, ![i].returns = @ + 1]
    /\ taskPC' = [taskPC EXCEPT ![i] = "returned"]
    /\ UNCHANGED <<serviceAccountIDs, groundTruth, observedKeys, groundTruthKeys, badSAs,
                   badSAsLock, fetchErr, res, errs, wg, spawned, inflight, limiterTokens,
                   reportVars, mainPC, crash, exitCode>>

\* The goroutine stores where the one finishing before it stored.
ResultSlotShifted(i) == IF i = 1 THEN N ELSE i - 1

\* The index the goroutine captured (i := i).
ResultSlot(i) == i

\* The goroutine of parllelMap after f: res[i] = r, errs[i] = err, and the deferred wg.Done().
TaskDone(i) ==
    /\ InObserved \/ InGroundTruth
    /\ taskPC[i] = "returned"
    /\ res' = [res EXCEPT ![ResultSlot(i)] = taskR[i].r]
    /\ errs' = [errs EXCEPT ![ResultSlot(i)] = taskR[i].err]
    /\ wg' = wg - 1
    /\ taskPC' = [taskPC EXCEPT ![i] = "done"]
    /\ UNCHANGED <<serviceAccountIDs, groundTruth, observedKeys, groundTruthKeys, badSAs,
                   badSAsLock, fetchErr, spawned, taskR, inflight, limiterTokens,
                   reportVars, mainPC, crash, exitCode>>

\* Only the first error is looked at.
ErrorsJoinFirstOnly(e) == IF Len(e) > 0 THEN e[1] ELSE ""

\* errors.Join(errs...): nil when every error is nil, else the non-nil ones, one per line.
RECURSIVE ErrorsJoin(_)
ErrorsJoin(e) ==
    IF e = <<>> THEN ""
    ELSE LET rest == ErrorsJoin(Tail(e))
         IN IF Head(e) = "" THEN rest
            ELSE IF rest = "" THEN Head(e)
            ELSE Head(e) \o "\n" \o rest

\* wg.Wait() returns with one goroutine still running.
WaitReturnsEarly == wg <= 1

\* wg.Wait() returns when the counter is zero.
WaitReturns == wg = 0

\* FetchKeys calls FetchGroundTruthKeys whatever the mode.
FetchKeysAlwaysGroundTruth(gt) == "FetchGroundTruthKeys"

\* FetchKeys after FetchObservedKeys returned nil: if groundTruth { ... }; return nil.
FetchKeysAfterObserved(gt) == IF gt THEN "FetchGroundTruthKeys" ELSE "report"

\* parllelMap from wg.Wait() on, and FetchObservedKeys and FetchKeys after it;
\* main exits with status 1 on an error.
FetchObservedKeysReturn ==
    /\ mainPC = "observed_wait"
    /\ WaitReturns
    /\ LET final_err == ErrorsJoin(errs)
       IN IF final_err # ""
          THEN /\ fetchErr' = "error getting keys from GCP API: " \o final_err
               /\ observedKeys' = observedKeys
               /\ exitCode' = 1
               /\ mainPC' = "exit"
          ELSE /\ fetchErr' = ""
               /\ observedKeys' = res
               /\ exitCode' = exitCode
               /\ mainPC' = FetchKeysAfterObserved(groundTruth)
    /\ UNCHANGED <<serviceAccountIDs, groundTruth, groundTruthKeys, badSAs, badSAsLock,
                   res, errs, wg, spawned, taskPC, taskR, inflight, limiterTokens,
                   reportVars, crash>>

\* FetchGroundTruthKeys up to the loop of parllelMap.  The limiter starts with its burst of 1.
FetchGroundTruthKeysStart ==
    /\ mainPC = "FetchGroundTruthKeys"
    /\ limiterTokens' = 1
    /\ groundTruthKeys' = [i \in Tasks |-> NilMap]
    /\ ParllelMapEntry
    /\ mainPC' = "groundTruth_spawn"
    /\ UNCHANGED <<serviceAccountIDs, groundTruth, observedKeys, badSAs, badSAsLock,
                   fetchErr, inflight, reportVars, crash, exitCode>>

\* parllelMap from wg.Wait() on, and FetchGroundTruthKeys and FetchKeys after it;
\* the limiter, a local of FetchGroundTruthKeys, is gone.
FetchGroundTruthKeysReturn ==
    /\ mainPC = "groundTruth_wait"
    /\ WaitReturns
    /\ LET final_err == ErrorsJoin(errs)
       IN IF final_err # ""
          THEN /\ fetchErr' = "error getting keys from GCP API: " \o final_err
               /\ groundTruthKeys' = groundTruthKeys
               /\ exitCode' = 1
               /\ mainPC' = "exit"
          ELSE /\ fetchErr' = ""
               /\ groundTruthKeys' = res
               /\ exitCode' = exitCode
               /\ mainPC' = "report"
    /\ limiterTokens' = 0
    /\ UNCHANGED <<serviceAccountIDs, groundTruth, observedKeys, badSAs, badSAsLock,
                   res, errs, wg, spawned, taskPC, taskR, inflight,
                   reportVars, crash>>

\* The reporting loop of main reaches the next service account: a bad
\* account is skipped (no goroutine is left to hold the lock).
ReportSA ==
    /\ mainPC = "report"
    /\ reportI < N
    /\ badSAsLock = 0
    /\ reportI' = reportI + 1
    /\ IF isBadSA(serviceAccountIDs[reportI + 1])
       THEN /\ pendingKeys' = {}
            /\ hasBadKeys' = hasBadKeys
            /\ mainPC' = "report"
       ELSE /\ pendingKeys' = DOMAIN observedKeys[reportI + 1].entries
            /\ hasBadKeys' = FALSE
            /\ mainPC' = "keys"
    /\ UNCHANGED <<fetchVars, key, realKeyKind, good, bad, crash, exitCode>>

PanicNilKey == "invalid memory address or nil pointer dereference"

\* realKey := keyCollection.groundTruthKeys[i][keyId] and the mapping of its type and origin.
RealKeyKind(i, keyId) ==
    IF keyId \notin DOMAIN groundTruthKeys[i].entries
    THEN Panicked(PanicNilKey)
    ELSE keyTypeAndOriginToMuxedKeyKind(groundTruthKeys[i].entries[keyId].KeyType,
                                        groundTruthKeys[i].entries[keyId].KeyOrigin)

\* One turn of the loop over observedKeys[i] (in any order of the key IDs):
\* NewSAKey, determineKeyKind and the switch on the output mode.  The normal
\* and the verbose mode differ in what they print only.
ReportKey ==
    /\ mainPC = "keys"
    /\ \E keyId \in pendingKeys :
         LET d == determineKeyKind(NewSAKey(serviceAccountIDs[reportI],
                                            observedKeys[reportI].entries[keyId]))
             real == RealKeyKind(reportI, keyId)
         IN /\ pendingKeys' = pendingKeys \ {keyId}
            /\ key' = d.val
            /\ IF d.panic # ""
               THEN /\ crash' = d.panic
                    /\ mainPC' = "panic"
                    /\ UNCHANGED <<realKeyKind, hasBadKeys>>
               ELSE IF ~groundTruth
               THEN /\ hasBadKeys' = (hasBadKeys \/ d.val.keyKind # GOOGLE_PROVIDED_SYSTEM_MANAGED)
                    /\ UNCHANGED <<realKeyKind, crash, mainPC>>
               ELSE IF real.panic # ""
               THEN /\ crash' = real.panic
                    /\ mainPC' = "panic"
                    /\ UNCHANGED <<realKeyKind, hasBadKeys>>
               ELSE /\ realKeyKind' = real.val
                    /\ hasBadKeys' = (hasBadKeys \/ real.val # d.val.keyKind)
                    /\ UNCHANGED <<crash, mainPC>>
    /\ UNCHANGED <<fetchVars, reportI, good, bad, exitCode>>

\* After the last key of the account: good++ or bad++.
ReportCount ==
    /\ mainPC = "keys"
    /\ pendingKeys = {}
    /\ IF hasBadKeys
       THEN bad' = bad + 1 /\ good' = good
       ELSE good' = good + 1 /\ bad' = bad
    /\ mainPC' = "report"
    /\ UNCHANGED <<fetchVars, reportI, pendingKeys, key, realKeyKind, hasBadKeys, crash, exitCode>>

\* After the last account: os.Exit(1) when an account had bad keys, else os.Exit(0).
Exit ==
    /\ mainPC = "report"
    /\ reportI = N
    /\ exitCode' = IF bad > 0 THEN 1 ELSE 0
    /\ mainPC' = "exit"
    /\ UNCHANGED <<fetchVars, reportVars, crash>>

Next ==
    \/ FetchObservedKeysStart
    \/ Spawn
    \/ \E i \in Tasks : ObsAcquire(i)
    \/ \E i \in Tasks : ObsFetch(i)
    \/ \E i \in Tasks : AddBadSALock(i)
    \/ \E i \in Tasks : AddBadSAUnlock(i)
    \/ \E i \in Tasks : ObsRelease(i)
    \/ FetchObservedKeysReturn
    \/ FetchGroundTruthKeysStart
    \/ \E i \in Tasks : IsBadSALock(i)
    \/ \E i \in Tasks : IsBadSAUnlock(i)
    \/ \E i \in Tasks : LimiterWait(i)
    \/ LimiterRefill
    \/ \E i \in Tasks : GroundTruthCall(i)
    \/ \E i \in Tasks : TaskDone(i)
    \/ FetchGroundTruthKeysReturn
    \/ ReportSA
    \/ ReportKey
    \/ ReportCount
    \/ Exit

Spec == Init /\ [][Next]_vars

\* The steps of FetchKeys: of parllelMap and of the goroutines it started.
FetchStep ==
    \/ FetchObservedKeysStart
    \/ Spawn
    \/ \E i \in Tasks : ObsAcquire(i)
    \/ \E i \in Tasks : ObsFetch(i)
    \/ \E i \in Tasks : AddBadSALock(i)
    \/ \E i \in Tasks : AddBadSAUnlock(i)
    \/ \E i \in Tasks : ObsRelease(i)
    \/ FetchObservedKeysReturn
    \/ FetchGroundTruthKeysStart
    \/ \E i \in Tasks : IsBadSALock(i)
    \/ \E i \in Tasks : IsBadSAUnlock(i)
    \/ \E i \in Tasks : LimiterWait(i)
    \/ LimiterRefill
    \/ \E i \in Tasks : GroundTruthCall(i)
    \/ \E i \in Tasks : TaskDone(i)
    \/ FetchGroundTruthKeysReturn

(* The Go scheduler runs a goroutine that can run, and the requests and
   waits of the program's surroundings end: FetchKeys does not stop while a
   step of it can be taken. *)
FairSpec == Spec /\ WF_vars(FetchStep)

-----------------------------------------------------------------------------
(* The tracker of bad accounts on its own: badSAs and badSAsLock of a
   KeyCollection, and goroutines that each make any calls of addBadSA and
   isBadSA, with any accounts, in any order and interleaving. *)

Callers == 1..MaxCallers
TrackerAccounts == {SAName(1), SAName(2)}

ZeroCall == [op |-> "", sa |-> "", result |-> FALSE, returns |-> 0,
             addedBefore |-> {}, asked |-> {}, added |-> {}]

\* The accounts some call of addBadSA was started with, and returned for.
StartedAdds == UNION {taskR[i].asked : i \in 1..Len(taskR)}
ReturnedAdds == UNION {taskR[i].added : i \in 1..Len(taskR)}

TrackerInit ==
    /\ serviceAccountIDs = <<>>
    /\ groundTruth = FALSE
    /\ observedKeys = <<>>
    /\ groundTruthKeys = <<>>
    /\ badSAs = <<>>
    /\ badSAsLock = 0
    /\ mainPC = "tracker"
    /\ fetchErr = ""
    /\ res = <<>>
    /\ errs = <<>>
    /\ wg = 0
    /\ spawned = 0
    /\ taskPC = [i \in Callers |-> "idle"]
    /\ taskR = [i \in Callers |-> ZeroCall]
    /\ inflight = 0
    /\ limiterTokens = 0
    /\ reportI = 0
    /\ pendingKeys = {}
    /\ key = NewSAKey("", "")
    /\ realKeyKind = ""
    /\ hasBadKeys = FALSE
    /\ good = 0
    /\ bad = 0
    /\ crash = ""
    /\ exitCode = -1

trackerFixed ==
    <<serviceAccountIDs, groundTruth, observedKeys, groundTruthKeys, fetchErr, res, errs,
      wg, spawned, inflight, limiterTokens, reportVars, mainPC, crash, exitCode>>

\* The calls made so far: those that returned and those under way.
RECURSIVE CallsReturned(_)
CallsReturned(n) == IF n = 0 THEN 0 ELSE taskR[n].returns + CallsReturned(n - 1)
CallsMade == CallsReturned(Len(taskR)) + Cardinality({i \in 1..Len(taskPC) : taskPC[i] # "idle"})

\* A goroutine calls k.addBadSA(sa) or k.isBadSA(sa).
TrackerCall(i) ==
    /\ taskPC[i] = "idle"
    /\ CallsMade < MaxTrackerCalls
    /\ \E op \in {"addBadSA", "isBadSA"}, sa \in TrackerAccounts :
         taskR' = [taskR EXCEPT ![i].op = op, ![i].sa = sa, ![i].result = FALSE,
                                ![i].addedBefore = ReturnedAdds,
                                ![i].asked = IF op = "addBadSA" THEN @ \cup {sa} ELSE @]
    /\ taskPC' = [taskPC EXCEPT ![i] = "Lock"]
    /\ UNCHANGED <<badSAs, badSAsLock, trackerFixed>>

\* A sync.Mutex that is locked whoever holds it.
MutexAlwaysFree(lock) == TRUE

\* k.badSAsLock.Lock() returns when no goroutine holds the mutex.
MutexFree(lock) == lock = 0

TrackerLock(i) ==
    /\ taskPC[i] = "Lock"
    /\ MutexFree(badSAsLock)
    /\ badSAsLock' = i
    /\ taskPC' = [taskPC EXCEPT ![i] = "locked"]
    /\ UNCHANGED <<badSAs, taskR, trackerFixed>>

\* addBadSA: the append, the deferred Unlock and the return.
TrackerAddBadSA(i) ==
    /\ taskPC[i] = "locked"
    /\ taskR[i].op = "addBadSA"
    /\ badSAs' = addBadSA(badSAs, taskR[i].sa)
    /\ badSAsLock' = 0
    /\ taskR' = [taskR EXCEPT ![i].added = @ \cup {taskR[i].sa}, ![i].returns = @ + 1]
    /\ taskPC' = [taskPC EXCEPT ![i] = "idle"]
    /\ UNCHANGED trackerFixed

\* isBadSA: slices.Contains, the deferred Unlock and the return of its value.
TrackerIsBadSA(i) ==
    /\ taskPC[i] = "locked"
    /\ taskR[i].op = "isBadSA"
    /\ badSAsLock' = 0
    /\ taskR' = [taskR EXCEPT ![i].result = isBadSA(taskR[i].sa), ![i].returns = @ + 1]
    /\ taskPC' = [taskPC EXCEPT ![i] = "idle"]
    /\ UNCHANGED <<badSAs, trackerFixed>>

TrackerNext ==
    \/ \E i \in Callers : TrackerCall(i)
    \/ \E i \in Callers : TrackerLock(i)
    \/ \E i \in Callers : TrackerAddBadSA(i)
    \/ \E i \in Callers : TrackerIsBadSA(i)

TrackerSpec == TrackerInit /\ [][TrackerNext]_vars

-----------------------------------------------------------------------------
(* Properties. *)

KindsOf(signals) == {signals[i].keyKind : i \in 1..Len(signals)}

\* The precedence order as the documentation gives it, and the kind of a set
\* that comes first in it.
DocumentedOrder ==
    <<"USER_PROVIDED/USER_MANAGED", "GOOGLE_PROVIDED/USER_MANAGED", "GOOGLE_PROVIDED/SYSTEM_MANAGED">>
ValidKinds == {DocumentedOrder[i] : i \in 1..3}
Rank(kind) == CHOOSE i \in 1..3 : DocumentedOrder[i] = kind
FirstInOrder(kinds) == CHOOSE kind \in kinds : \A other \in kinds : Rank(kind) <= Rank(other)

\* C1: for every non-empty signal list, the loop of determineKeyKind returns
\* the kind of its signals that comes first in the precedence order
\* USER_PROVIDED/USER_MANAGED, GOOGLE_PROVIDED/USER_MANAGED,
\* GOOGLE_PROVIDED/SYSTEM_MANAGED, whatever the order the signals are given in.
C1_ResolvesToHighestPrecedence ==
    mainPC = "resolved" =>
        /\ KindsOf(key.signals) \subseteq ValidKinds
        /\ key.keyKind = FirstInOrder(KindsOf(key.signals))

\* A list whose first signal is the weakest kind and which resolves to the strongest.
C1_Witness ==
    /\ mainPC = "resolved"
    /\ Len(key.signals) >= 3
    /\ key.signals[1].keyKind = "GOOGLE_PROVIDED/SYSTEM_MANAGED"
    /\ key.signals[Len(key.signals)].keyKind = "GOOGLE_PROVIDED/USER_MANAGED"
    /\ key.keyKind = "USER_PROVIDED/USER_MANAGED"

\* FetchObservedKeys has returned and the locals of its goroutines are still there.
ObservedFetched ==
    /\ mainPC \in {"FetchGroundTruthKeys", "report", "keys", "panic", "exit"}
    /\ groundTruth => mainPC = "FetchGroundTruthKeys"

FailedFetches == {i \in Tasks : taskR[i].fetchFailed}

\* What the endpoint serves for account sa, as the certificate map of a successful fetch.
PublishedMaps(sa) ==
    {GoMap([id \in DOMAIN keys |-> keys[id].cert]) : keys \in PublishedKeys(SANumber(sa))}

FetchIsolation ==
    /\ fetchErr = ""
    /\ exitCode # 1 \/ mainPC = "exit"
    /\ Len(observedKeys) = N
    /\ \A i \in Tasks :
         IF i \in FailedFetches
         THEN /\ isBadSA(serviceAccountIDs[i])
              /\ observedKeys[i].entries = <<>>
         ELSE /\ ~isBadSA(serviceAccountIDs[i])
              /\ observedKeys[i] \in PublishedMaps(serviceAccountIDs[i])
    /\ Cardinality({i \in Tasks : isBadSA(serviceAccountIDs[i])}) = Cardinality(FailedFetches)

\* C2, as claimed: whatever the list of principals, when FetchObservedKeys has
\* returned it returned no error, exactly the principals whose fetch failed
\* are marked bad and hold an empty result, and the others are not marked bad
\* and hold their fetched certificate map.
C2_FetchIsolationAnyList == ObservedFetched => FetchIsolation

PairwiseDistinct(seq) == \A i, j \in 1..Len(seq) : seq[i] = seq[j] => i = j

\* C2, amended: the same for a list of pairwise distinct principals.
C2_FetchIsolationDistinct ==
    (ObservedFetched /\ PairwiseDistinct(serviceAccountIDs)) => FetchIsolation

\* Distinct principals, two failed fetches and one fetched map.
C2_Witness ==
    /\ ObservedFetched
    /\ PairwiseDistinct(serviceAccountIDs)
    /\ Cardinality(FailedFetches) = 2
    /\ Len(badSAs) = 2
    /\ \E i \in Tasks : ~observedKeys[i].nil

\* FetchGroundTruthKeys has returned (its goroutines' locals stay to the end).
GroundTruthFetched == groundTruth /\ mainPC \in {"report", "keys", "panic", "exit"}

\* C3: FetchGroundTruthKeys returns an error (and main exits with status 1)
\* when at least one of its tasks returned an error, whatever the other tasks
\* returned, and returns nil when none did.
C3_GroundTruthErrorIsFatal ==
    GroundTruthFetched =>
        IF \E i \in Tasks : taskR[i].err # ""
        THEN fetchErr # "" /\ mainPC = "exit" /\ exitCode = 1
        ELSE fetchErr = "" /\ groundTruthKeys = [i \in Tasks |-> taskR[i].r]

\* The last task failed, one before it listed its keys, and the batch failed.
C3_Witness ==
    /\ GroundTruthFetched
    /\ fetchErr # ""
    /\ taskR[N].err # ""
    /\ \E i \in Tasks : taskR[i].err = "" /\ taskR[i].apiCalls = 1 /\ ~taskR[i].r.nil

HasSignal(k, text) == \E i \in 1..Len(k.signals) : k.signals[i].explanation = text

ValidityTexts ==
    {ExplNotAfter, ExplLegacy, ExplStandard, ExplExpiryHours, ExplBetween, ExplNonStandard}

ValiditySignals(k) ==
    SelectSeq(k.signals, LAMBDA sig : sig.explanation \in ValidityTexts)

\* C4, as claimed: determineKeyKind on a certificate whose public key is not
\* an RSA key does not panic; its signals hold the "not RSA" signal and a
\* validity-period signal, and a kind is resolved.
C4_NonRSADoesNotCrash ==
    (mainPC \in {"classified", "panic"} /\ key.cert.PublicKey.type # "*rsa.PublicKey") =>
        /\ crash = ""
        /\ HasSignal(key, ExplNotRSA)
        /\ Len(ValiditySignals(key)) = 1
        /\ key.keyKind \in ValidKinds

\* The kind the documentation gives for a validity period, by its branches in order.
DocumentedValidityKind(cert) ==
    LET window == TimeSub(cert.NotAfter, cert.NotBefore)
        hours(h) == [days |-> h \div 24, secs |-> (h % 24) * 3600, nsec |-> 0]
    IN IF cert.NotAfter = [days |-> 2932896, secs |-> 86399]
       THEN "GOOGLE_PROVIDED/USER_MANAGED"
       ELSE IF window = hours(87600) THEN "GOOGLE_PROVIDED/USER_MANAGED"
       ELSE IF window = [days |-> 16, secs |-> 12 * 3600 + 15 * 60, nsec |-> 0]
       THEN "GOOGLE_PROVIDED/SYSTEM_MANAGED"
       ELSE IF window \in {hours(1), hours(8), hours(24), hours(168), hours(336),
                           hours(720), hours(1440), hours(2160)}
       THEN "GOOGLE_PROVIDED/USER_MANAGED"
       ELSE IF /\ DurationLess([days |-> 730, secs |-> 0, nsec |-> 0], window)
               /\ DurationLess(window, [days |-> 761, secs |-> 0, nsec |-> 0])
       THEN "GOOGLE_PROVIDED/SYSTEM_MANAGED"
       ELSE "USER_PROVIDED/USER_MANAGED"

IsTwentyOneDigitsFromOne(v) ==
    /\ Len(v) = 21
    /\ SubSeq(v, 1, 1) = "1"
    /\ \A i \in 1..21 : SubSeq(v, i, i) \in Digits

\* The name written out for the account of the key.
DocumentedExpectedName(k) == (CHOOSE s \in TestSAs : s.sa = k.serviceAccount).expected

GoogleStandardWithGaiaSubject(k) ==
    /\ IsTwentyOneDigitsFromOne(k.cert.Subject)
    /\ \/ k.cert.Issuer = DocumentedExpectedName(k)
       \/ IsTwentyOneDigitsFromOne(k.cert.Issuer)
    /\ DocumentedValidityKind(k.cert) # "USER_PROVIDED/USER_MANAGED"
    /\ k.cert.PublicKeyAlgorithm = "RSA"
    /\ k.cert.PublicKey = [type |-> "*rsa.PublicKey", bitLen |-> 2048]
    /\ k.cert.SignatureAlgorithm = "SHA1WithRSA"
    /\ k.cert.ExtKeyUsage = <<"ClientAuth">>
    /\ k.cert.KeyUsage = {"DigitalSignature"}

\* C6: a certificate whose subject CN is a GAIA ID and whose other checks are
\* Google-standard resolves to GOOGLE_PROVIDED/USER_MANAGED.
C6_GaiaSubjectIsUserManaged ==
    (mainPC \in {"classified", "panic"} /\ GoogleStandardWithGaiaSubject(key)) =>
        /\ crash = ""
        /\ key.keyKind = "GOOGLE_PROVIDED/USER_MANAGED"

\* Such a key whose issuer and validity period both point to a system-managed key.
C6_Witness ==
    /\ mainPC = "classified"
    /\ GoogleStandardWithGaiaSubject(key)
    /\ key.cert.Issuer = DocumentedExpectedName(key)
    /\ DocumentedValidityKind(key.cert) = "GOOGLE_PROVIDED/SYSTEM_MANAGED"
    /\ key.keyKind = "GOOGLE_PROVIDED/USER_MANAGED"

APIKeyTypes == {"KEY_TYPE_UNSPECIFIED", "USER_MANAGED", "SYSTEM_MANAGED"}
APIKeyOrigins == {"ORIGIN_UNSPECIFIED", "USER_PROVIDED", "GOOGLE_PROVIDED"}
ValidPairs == {<<"USER_MANAGED", "USER_PROVIDED">>, <<"USER_MANAGED", "GOOGLE_PROVIDED">>,
               <<"SYSTEM_MANAGED", "GOOGLE_PROVIDED">>}
ImpossibleKind == "USER_PROVIDED/SYSTEM_MANAGED"

\* C7: keyTypeAndOriginToMuxedKeyKind panics for USER_PROVIDED with
\* SYSTEM_MANAGED and for every other pair outside the three valid kinds, and
\* returns origin/type for those three; no signal, resolved kind or mapped
\* ground-truth kind of any state is USER_PROVIDED/SYSTEM_MANAGED.
C7_ImpossibleKindGuard ==
    /\ \A t \in APIKeyTypes, o \in APIKeyOrigins :
         IF <<t, o>> \in ValidPairs
         THEN keyTypeAndOriginToMuxedKeyKind(t, o) = Returned(o \o "/" \o t)
         ELSE keyTypeAndOriginToMuxedKeyKind(t, o).panic # ""
    /\ KindsOf(key.signals) \subseteq ValidKinds
    /\ key.keyKind \in ValidKinds \cup {""}
    /\ realKeyKind \in ValidKinds \cup {""}

\* The API listed a USER_PROVIDED, SYSTEM_MANAGED key and the mapping panicked.
C7_Witness ==
    /\ mainPC = "panic"
    /\ crash = "Invalid key type and origin combination: USER_PROVIDED/SYSTEM_MANAGED"
    /\ key.keyKind \in ValidKinds
    /\ realKeyKind # ImpossibleKind

\* The keys a successful Keys.List call gives for the account named sa.
ListedMaps(sa) ==
    {GoMap([id \in {SubSeq(l[j].Name, Len(l[j].Name) - 1, Len(l[j].Name)) : j \in 1..Len(l)} |->
              l[CHOOSE j \in 1..Len(l) : l[j].Name = KeyName(SANumber(sa), id)]]) :
        l \in ListedKeys(SANumber(sa))}

\* C8: once parllelMap has returned without error, its result has the length
\* of its input and holds at index i what the goroutine started for item i
\* returned, a value of that item, in both uses of parllelMap and whatever
\* the order the goroutines ran and finished in.
C8_ResultsInInputOrder ==
    /\ ObservedFetched =>
         /\ Len(observedKeys) = N
         /\ \A i \in Tasks :
              /\ observedKeys[i] = taskR[i].r
              /\ observedKeys[i] \in PublishedMaps(serviceAccountIDs[i]) \cup {NilMap}
    /\ (GroundTruthFetched /\ fetchErr = "") =>
         /\ Len(groundTruthKeys) = N
         /\ \A i \in Tasks :
              /\ groundTruthKeys[i] = taskR[i].r
              /\ groundTruthKeys[i] \in ListedMaps(serviceAccountIDs[i]) \cup {NilMap}

\* Both results hold different maps at their first two indices.
C8_Witness ==
    /\ GroundTruthFetched
    /\ fetchErr = ""
    /\ ~observedKeys[1].nil /\ ~observedKeys[2].nil /\ observedKeys[1] # observedKeys[2]
    /\ ~groundTruthKeys[1].nil /\ ~groundTruthKeys[2].nil /\ groundTruthKeys[1] # groundTruthKeys[2]

\* parllelMap is not running: before the first call, between the two, or after the last.
ParllelMapReturned == mainPC \in {"FetchGroundTruthKeys", "report", "keys", "panic", "exit"}

AllTasksRanOnce ==
    /\ \A i \in 1..Len(taskR) : taskR[i].returns <= 1
    /\ ParllelMapReturned =>
         \A i \in Tasks : taskPC[i] = "done" /\ taskR[i].returns = 1

\* C9: parllelMap returns only when every goroutine has finished, each having
\* run f to its end exactly once, also when a sibling returned an error; and
\* under fair scheduling every call of parllelMap returns.
C9_AllTasksRunAndJoin ==
    /\ []AllTasksRanOnce
    /\ InObserved ~> ParllelMapReturned
    /\ InGroundTruth ~> ParllelMapReturned

\* The first task returned an error and every sibling ran to its end.
C9_Witness ==
    /\ GroundTruthFetched
    /\ taskR[1].err # ""
    /\ \A i \in Tasks : taskPC[i] = "done" /\ taskR[i].returns = 1
    /\ \E i \in Tasks : taskR[i].apiCalls = 1 /\ taskR[i].err = ""

SlotHolders == {i \in 1..Len(taskPC) : taskPC[i] \in {"acquired", "failed", "addBadSA", "returning"}}

\* C10: during FetchObservedKeys at most MaxInflightX509 goroutines hold a
\* slot; the goroutines between Acquire and the deferred Release (the request
\* and the handling of its result) are exactly the holders; every slot is
\* free once FetchObservedKeys has returned.
C10_InflightBounded ==
    /\ inflight <= MaxInflightX509
    /\ InObserved => inflight = Cardinality(SlotHolders)
    /\ (mainPC \in {"FetchGroundTruthKeys", "groundTruth_spawn", "groundTruth_wait",
                    "report", "keys", "panic", "exit"}) => inflight = 0

\* Every slot is held, one by a failed fetch, and a goroutine waits for one.
C10_Witness ==
    /\ InObserved
    /\ inflight = MaxInflightX509
    /\ \E i \in Tasks : taskPC[i] = "start"
    /\ \E i \in Tasks : taskPC[i] = "addBadSA"


\* The ground-truth goroutines exist: FetchGroundTruthKeys is running or has returned.
GroundTruthTasks == InGroundTruth \/ GroundTruthFetched

\* sa is in the list of bad accounts.
MarkedBad(sa) == \E j \in 1..Len(badSAs) : badSAs[j] = sa

\* C11: in FetchGroundTruthKeys the task of an account marked bad returns an
\* empty result and no error, having taken no limiter token and made no API
\* call; a task calls the API at most once, only for an account not marked
\* bad and only after it took a token from the one bucket (of burst 1) that
\* all tasks share.
C11_BadSkipsLimiterAndAPI ==
    GroundTruthTasks =>
        /\ limiterTokens \in 0..1
        /\ \A i \in Tasks :
             /\ taskR[i].apiCalls <= taskR[i].tokens
             /\ taskR[i].tokens <= 1
             /\ taskPC[i] = "call" => taskR[i].tokens = 1
             /\ MarkedBad(serviceAccountIDs[i]) =>
                  /\ taskR[i].tokens = 0
                  /\ taskR[i].apiCalls = 0
                  /\ taskPC[i] \notin {"wait", "call"}
                  /\ taskPC[i] \in {"returned", "done"} =>
                       taskR[i].r = NilMap /\ taskR[i].err = "" /\ taskR[i].isBad
             /\ (taskR[i].tokens > 0 \/ taskR[i].apiCalls > 0) =>
                  ~MarkedBad(serviceAccountIDs[i]) /\ ~taskR[i].isBad

\* A bad account's task returned empty without a token while another task
\* called the API with its token.
C11_Witness ==
    /\ GroundTruthFetched
    /\ \E i \in Tasks : /\ MarkedBad(serviceAccountIDs[i])
                        /\ taskPC[i] = "done" /\ taskR[i].r = NilMap
                        /\ taskR[i].tokens = 0 /\ taskR[i].apiCalls = 0
    /\ \E i \in Tasks : /\ ~MarkedBad(serviceAccountIDs[i])
                        /\ taskR[i].tokens = 1 /\ taskR[i].apiCalls = 1


\* 9999-12-31 23:59:59 +0000 UTC, as days since 1970-01-01 and seconds of the day.
NoExpiryDate == [days |-> 2932896, secs |-> 86399]

\* The signal CheckValidityPeriod appends to the key of the state.
ValiditySignalOfKey ==
    LET after == CheckValidityPeriod(key).signals IN after[Len(after)]

NoExpiryKey == mainPC \in {"newSAKey", "classified"} /\ key.cert.NotAfter = NoExpiryDate

PhaseRank(pc) ==
    CASE pc = "FetchKeys" -> 0
      [] pc \in {"observed_spawn", "observed_wait"} -> 1
      [] pc = "FetchGroundTruthKeys" -> 2
      [] pc \in {"groundTruth_spawn", "groundTruth_wait"} -> 3
      [] pc \in {"report", "keys"} -> 4
      [] pc \in {"panic", "exit"} -> 5

ObservedJoined ==
    /\ wg = 0
    /\ badSAsLock = 0
    /\ inflight = 0
    /\ \A i \in Tasks : taskPC[i] = "done" /\ taskR[i].returns = 1

\* A phase that was left is not entered again, and each is entered from the one before it.
PhasesInOrder ==
    /\ PhaseRank(mainPC') >= PhaseRank(mainPC)
    /\ (InObserved' /\ ~InObserved) => mainPC = "FetchKeys"
    /\ (InGroundTruth' /\ ~InGroundTruth) =>
         /\ mainPC = "FetchGroundTruthKeys"
         /\ groundTruth /\ fetchErr = ""
         /\ ObservedJoined
         /\ observedKeys = res
    /\ (mainPC' = "FetchGroundTruthKeys" /\ mainPC # "FetchGroundTruthKeys") =>
         mainPC = "observed_wait" /\ ObservedJoined
    /\ PhaseRank(mainPC) >= 2 => badSAs' = badSAs
    /\ (\E i \in 1..Len(taskPC) : taskPC[i] = "none" /\ taskPC'[i] # "none") => mainPC = "FetchKeys"

GroundTruthOnlyInItsMode ==
    /\ (InGroundTruth \/ mainPC = "FetchGroundTruthKeys") => groundTruth /\ fetchErr = ""
    /\ ~groundTruth => groundTruthKeys = <<>> /\ limiterTokens = 0
    /\ InGroundTruth => Len(observedKeys) = N

\* C13: FetchKeys runs its phases at most once and in order: FetchObservedKeys
\* starts only from the entry of FetchKeys and has joined all its goroutines,
\* after which the list of bad accounts never changes, before
\* FetchGroundTruthKeys starts; FetchGroundTruthKeys starts only in
\* ground-truth mode and after FetchObservedKeys returned no error; under fair
\* scheduling FetchObservedKeys runs and returns in every run, and
\* FetchGroundTruthKeys runs and returns in every run in ground-truth mode.
C13_PhasesOnceInOrder ==
    /\ [][PhasesInOrder]_vars
    /\ []GroundTruthOnlyInItsMode
    /\ <>(PhaseRank(mainPC) >= 2)
    /\ (mainPC = "FetchKeys" /\ groundTruth) ~> GroundTruthFetched
    /\ [](~groundTruth => ~<>InGroundTruth)

\* Ground-truth tasks are running after the public fetch marked an account bad.
C13_Witness ==
    /\ mainPC = "groundTruth_wait"
    /\ groundTruth
    /\ Len(badSAs) >= 1
    /\ \E i \in Tasks : taskPC[i] = "call"
    /\ \E i \in Tasks : taskPC[i] = "done" /\ taskR[i].isBad


\* The goroutines inside the region guarded by badSAsLock.
InsideLock == {i \in 1..Len(taskPC) : taskPC[i] = "locked"}

MutualExclusion ==
    /\ Cardinality(InsideLock) <= 1
    /\ \A i \in InsideLock : badSAsLock = i
    /\ InsideLock = {} => badSAsLock = 0

IsPrefix(a, b) == Len(a) <= Len(b) /\ SubSeq(b, 1, Len(a)) = a

\* Every account whose addBadSA returned is in the list, and nothing else is.
NoneLostNoneInvented ==
    /\ \A sa \in ReturnedAdds : MarkedBad(sa)
    /\ \A j \in 1..Len(badSAs) : badSAs[j] \in ReturnedAdds

\* The last call of each goroutine, when it was isBadSA and has returned.
IsBadSAAnswers ==
    \A i \in Callers :
        (taskPC[i] = "idle" /\ taskR[i].op = "isBadSA") =>
            /\ taskR[i].sa \in taskR[i].addedBefore => taskR[i].result
            /\ taskR[i].sa \notin StartedAdds => ~taskR[i].result
            /\ taskR[i].result => MarkedBad(taskR[i].sa)

\* C14: under any concurrent calls of addBadSA and isBadSA at most one call is
\* inside the region guarded by badSAsLock; badSAs only grows, by appending,
\* and holds exactly the accounts whose addBadSA returned; an isBadSA(p) that
\* starts after an addBadSA(p) returned gives true, and isBadSA(q) gives false
\* for an account q that no addBadSA was called with.
C14_TrackerSafe ==
    /\ [](mainPC = "tracker" => MutualExclusion /\ NoneLostNoneInvented /\ IsBadSAAnswers)
    /\ [][mainPC = "tracker" => IsPrefix(badSAs, badSAs')]_vars

\* Two accounts were added by different goroutines; then one goroutine was
\* told that the first is bad while the other holds the lock.
C14_Witness ==
    /\ mainPC = "tracker"
    /\ Len(badSAs) = 2 /\ badSAs[1] # badSAs[2]
    /\ \E i, j \in Callers :
         /\ i # j
         /\ taskR[i].added # {} /\ taskR[j].added # {}
         /\ taskPC[i] = "idle" /\ taskR[i].op = "isBadSA" /\ taskR[i].result
         /\ taskR[i].sa \in taskR[j].added
         /\ taskPC[j] = "locked"


\* The kind the rules for a name give for the value v of a certificate of key k.
DocumentedNameKind(k, v) ==
    LET sa == CHOOSE s \in TestSAs : s.sa = k.serviceAccount
    IN IF IsTwentyOneDigitsFromOne(v) THEN "GOOGLE_PROVIDED/USER_MANAGED"
       ELSE IF v = sa.expected THEN "GOOGLE_PROVIDED/SYSTEM_MANAGED"
       ELSE IF Len(sa.expected) >= 64 /\ v = sa.truncated THEN "GOOGLE_PROVIDED/SYSTEM_MANAGED"
       ELSE "USER_PROVIDED/USER_MANAGED"

StartsWith(text, prefix) ==
    Len(text) >= Len(prefix) /\ SubSeq(text, 1, Len(prefix)) = prefix

\* signals[at] and signals[at + 1] are the signals of the subject and of the issuer of k.
NameSignalsAt(k, signals, at) ==
    /\ Len(signals) >= at + 1
    /\ signals[at].keyKind = DocumentedNameKind(k, k.cert.Subject)
    /\ StartsWith(signals[at].explanation, "SubjectCN")
    /\ signals[at + 1].keyKind = DocumentedNameKind(k, k.cert.Issuer)
    /\ StartsWith(signals[at + 1].explanation, "IssuerCN")

NameSignals(k) ==
    SelectSeq(k.signals, LAMBDA sig : StartsWith(sig.explanation, "SubjectCN")
                                      \/ StartsWith(sig.explanation, "IssuerCN"))

\* C15: checkNames appends exactly two signals to the signals of any key, the
\* first for the subject CN and the second for the issuer CN, each of the kind
\* of the first matching rule: a GAIA ID, the expected name, the first 64
\* characters of an expected name of at least 64, else user-provided; they are
\* the first two signals of a key that check() has run on, and its only name
\* signals.
C15_TwoNameSignals ==
    /\ mainPC \in {"newSAKey", "classified", "panic"} =>
         LET after == checkNames(key).signals
         IN /\ Len(after) = Len(key.signals) + 2
            /\ SubSeq(after, 1, Len(key.signals)) = key.signals
            /\ NameSignalsAt(key, after, Len(key.signals) + 1)
    /\ mainPC \in {"classified", "panic"} =>
         /\ NameSignalsAt(key, key.signals, 1)
         /\ Len(NameSignals(key)) = 2

\* A classified key of an account with two '@': the subject is the expected
\* name, with the first '@' replaced only, and the issuer a GAIA ID.
C15_Witness ==
    /\ mainPC = "classified"
    /\ key.serviceAccount = "a@b@c.example"
    /\ key.cert.Subject = "a.b@c.example"
    /\ key.signals[1].keyKind = "GOOGLE_PROVIDED/SYSTEM_MANAGED"
    /\ IsTwentyOneDigitsFromOne(key.cert.Issuer)
    /\ key.signals[2].keyKind = "GOOGLE_PROVIDED/USER_MANAGED"


CryptoTexts == {ExplNotRSA, ExplNotSHA1, ExplLen1024, ExplLenOther}

CryptoSignals(k) == SelectSeq(k.signals, LAMBDA sig : sig.explanation \in CryptoTexts)

\* The signals the rules of the crypto check give for a certificate with an RSA key.
DocumentedCryptoSignals(cert) ==
    (IF cert.PublicKeyAlgorithm # "RSA"
     THEN <<Signal("USER_PROVIDED/USER_MANAGED", ExplNotRSA)>> ELSE <<>>)
    \o (IF cert.SignatureAlgorithm # "SHA1WithRSA"
        THEN <<Signal("USER_PROVIDED/USER_MANAGED", ExplNotSHA1)>> ELSE <<>>)
    \o (IF cert.PublicKey.bitLen = 1024
        THEN <<Signal("GOOGLE_PROVIDED/USER_MANAGED", ExplLen1024)>>
        ELSE IF cert.PublicKey.bitLen # 2048
        THEN <<Signal("USER_PROVIDED/USER_MANAGED", ExplLenOther)>> ELSE <<>>)

HasRSAKey(k) == k.cert.PublicKey.type = "*rsa.PublicKey"

\* C16: for a certificate with an RSA public key checkCrypto returns, having
\* appended, in this order, USER_PROVIDED/USER_MANAGED when the algorithm is not
\* RSA, USER_PROVIDED/USER_MANAGED when the signature algorithm is not
\* SHA1WithRSA, GOOGLE_PROVIDED/USER_MANAGED for 1024 bits and
\* USER_PROVIDED/USER_MANAGED for a length that is neither 1024 nor 2048, and
\* nothing else: nothing for RSA 2048 with SHA1WithRSA and never a
\* GOOGLE_PROVIDED/SYSTEM_MANAGED signal; for any certificate the signals it
\* appended are not GOOGLE_PROVIDED/SYSTEM_MANAGED and hold the "not RSA"
\* signal exactly when the algorithm is not RSA.
C16_CryptoNeverSystemManaged ==
    /\ mainPC \in {"newSAKey", "classified", "panic"} =>
         LET c == checkCrypto(key)
             appended == SubSeq(c.val.signals, Len(key.signals) + 1, Len(c.val.signals))
         IN /\ SubSeq(c.val.signals, 1, Len(key.signals)) = key.signals
            /\ \A i \in 1..Len(appended) : appended[i].keyKind # "GOOGLE_PROVIDED/SYSTEM_MANAGED"
            /\ (key.cert.PublicKeyAlgorithm # "RSA") <=>
                 (\E i \in 1..Len(appended) : appended[i].explanation = ExplNotRSA)
            /\ HasRSAKey(key) =>
                 c.panic = "" /\ appended = DocumentedCryptoSignals(key.cert)
    /\ (mainPC = "classified" /\ HasRSAKey(key)) =>
         CryptoSignals(key) = DocumentedCryptoSignals(key.cert)

\* A classified key of 1024 bits signed with SHA256WithRSA: both signals, in order.
C16_Witness ==
    /\ mainPC = "classified"
    /\ key.cert.PublicKey = [type |-> "*rsa.PublicKey", bitLen |-> 1024]
    /\ key.cert.SignatureAlgorithm = "SHA256WithRSA"
    /\ CryptoSignals(key) = <<Signal("USER_PROVIDED/USER_MANAGED", ExplNotSHA1),
                              Signal("GOOGLE_PROVIDED/USER_MANAGED", ExplLen1024)>>


\* Ground-truth mode, both fetches returned without error and main is reporting.
ReportingWithGroundTruth ==
    groundTruth /\ fetchErr = "" /\ mainPC \in {"report", "keys", "panic", "exit"}

\* C17, as claimed: in ground-truth mode, once both fetches succeeded, the
\* ground-truth map of every account not marked bad holds a record for every
\* key ID of its observed certificates, and the reporting loop never reads
\* the type and origin of a missing (nil) record.
C17_GroundTruthRecordPresent ==
    ReportingWithGroundTruth =>
        /\ crash # PanicNilKey
        /\ \A i \in Tasks :
             ~MarkedBad(serviceAccountIDs[i]) =>
                 DOMAIN observedKeys[i].entries \subseteq DOMAIN groundTruthKeys[i].entries

=============================================================================
